---- MODULE Spec2Model ----
(***************************************************************************)
(* A model of the eth_vm interpreter: the evaluation stack                 *)
(* (crates/primitives/src/stack.rs), the linear memory                     *)
(* (crates/primitives/src/memory.rs), the account storage                  *)
(* (crates/primitives/src/storage.rs), the dispatch table                  *)
(* (crates/evm_core/src/jump_tables.rs), the arithmetic handlers           *)
(* (crates/evm_core/src/operations/ariths.rs) and the fetch/decode/execute *)
(* loop (crates/evm_core/src/lib.rs).                                      *)
(*                                                                         *)
(* A Word (U256 / B256) is a sequence of 32 bytes, most significant first, *)
(* so that 256-bit arithmetic is computed exactly, byte by byte.           *)
(***************************************************************************)
EXTENDS Integers, Sequences, FiniteSets, TLC

VARIABLES
    memory,     \* Evm.memory.data : Vec<u8>, memory[i + 1] is the byte at offset i
    stack,      \* Evm.stack.data / Stack.data : Vec of Words, top is the last element
    pc,         \* Evm.pc
    status,     \* Evm.status
    panicked,   \* TRUE once a Rust panic has aborted the host process
    caller,     \* the embedding code: "idle" before any run(), "run" inside the loop
                \* of Evm::run, "ran" once a run() has returned
    nsteps,     \* number of handler invocations made by Evm::step so far (saturating)
    ret,        \* the value returned by the last call of the API under study
    trace,      \* the log of the calls of the API under study made so far
    tx,         \* Evm.tx : Transaction
    block_env,  \* Evm.block_env : BlockEnv
    storage     \* Evm.storage.data / EvmStorage.data : HashMap<Address, EvmAccount>

vars == <<memory, stack, pc, status, panicked, caller, nsteps, ret, trace,
          tx, block_env, storage>>

(***************************************************************************)
(* Bounds of the model.                                                    *)
(***************************************************************************)
\* deepest stack a machine is constructed with
MaxInitDepth == 2
\* the step counter saturates here
MaxSteps == 3
\* while the stack is shallower than this, pushed values are chosen freely
FreeDepth == 2
\* longest call log of the stack API
MaxOps == 6
\* deepest stack of a machine the handlers are called on directly
MaxOpsDepth == 3
\* longest log of direct handler calls
MaxCalls == 2
\* length of the zeroed memory the memory API is called on
MemLen == 34
\* largest of the small offsets passed to the memory API
MaxOffset == 2
\* longest call log of the memory API
MaxMemOps == 3
\* longest call log of the storage API
MaxStorageOps == 3
\* most calls of execute() on one machine
MaxExecutes == 2

(***************************************************************************)
(* Words.                                                                  *)
(***************************************************************************)
Byte == 0..255

\* a U256 / B256 is 32 bytes
WordBytes == 32

\* U256::from(n) for a small n
U256_from(n) ==
    [i \in 1..WordBytes |->
        IF i < WordBytes - 3 THEN 0 ELSE (n \div (256 ^ (WordBytes - i))) % 256]

\* U256::ZERO
U256_ZERO == [i \in 1..WordBytes |-> 0]

\* U256::MAX, 2^256 - 1
U256_MAX == [i \in 1..WordBytes |-> 255]

\* I256::MIN as a bit pattern, 2^255
I256_MIN == [i \in 1..WordBytes |-> IF i = 1 THEN 128 ELSE 0]

\* Big-endian byte strings of one length n stand for numbers below 256^n.

\* a byte string given as a function on 1..n, written out as the tuple of its bytes
ByteString(f) == SubSeq(f, 1, Len(f))

\* the positions of x + y that do not merely pass a carry on
NonPropagating(x, y) == {j \in 1..Len(x) : x[j] + y[j] # 255}

\* the carry (0 or 1) entering position i of x + y + c, for a carry-in c of 0 or 1:
\* it is decided by the nearest less significant position whose byte sum is not 255
CarryInto(x, y, c, i) ==
    LET S == {j \in NonPropagating(x, y) : j > i}
    IN  IF S = {} THEN c
        ELSE LET j == CHOOSE m \in S : \A k \in S : m <= k
             IN  IF x[j] + y[j] > 255 THEN 1 ELSE 0

\* x + y + c modulo 256^n
AddN(x, y, c) ==
    ByteString([i \in 1..Len(x) |-> (x[i] + y[i] + CarryInto(x, y, c, i)) % 256])

\* bitwise complement of a byte string
NotN(x) == ByteString([i \in 1..Len(x) |-> 255 - x[i]])

\* x - y modulo 256^n
SubN(x, y) == AddN(x, NotN(y), 1)

\* x >= y, decided at the most significant position where they differ
GeqN(x, y) ==
    LET D == {j \in 1..Len(x) : x[j] # y[j]}
    IN  IF D = {} THEN TRUE
        ELSE LET j == CHOOSE m \in D : \A k \in D : m <= k
             IN  x[j] > y[j]

\* Uint::wrapping_add, the `+` of U256
wrapping_add(a, b) == AddN(a, b, 0)

\* Uint::wrapping_sub, the `-` of U256
wrapping_sub(a, b) == SubN(a, b)

\* Uint::wrapping_mul, the `*` of U256: schoolbook columns, least significant first.
\* Column k (k = 0 is the last byte) sums the byte products a_i * b_j with i + j = k.
wrapping_mul(a, b) ==
    LET n == WordBytes
        col(k) == LET P[i \in 0..k + 1] ==
                          IF i > k THEN 0 ELSE a[n - i] * b[n - (k - i)] + P[i + 1]
                  IN  P[0]
        carry[k \in 0..n] == IF k = 0 THEN 0 ELSE (col(k - 1) + carry[k - 1]) \div 256
    IN  ByteString([i \in 1..n |-> (col(n - i) + carry[n - i]) % 256])

\* bit k of a byte, k = 1 being the most significant
BitOf(byte, k) == (byte \div (2 ^ (8 - k))) % 2

\* the words, and the one-byte-wider strings that hold a remainder being doubled
Word == [1..WordBytes -> Byte]
WideWord == [1..WordBytes + 1 -> Byte]

\* Schoolbook long division of a by a nonzero b, one byte of a at a time: st.q is the
\* quotient and st.r the remainder of the bytes taken so far.  A byte that leaves the
\* remainder below b contributes a zero digit; otherwise its 8 bits are taken one by
\* one (double the remainder, bring the bit down, subtract b when it fits).
DivRem(a, b) ==
    LET bw == <<0>> \o b
        BitStep(st, bit) ==
            LET r2 == AddN(st.r, st.r, bit)
            IN  IF GeqN(r2, bw)
                THEN [q |-> AddN(st.q, st.q, 1), r |-> SubN(r2, bw)]
                ELSE [q |-> AddN(st.q, st.q, 0), r |-> r2]
        Bits[k \in 0..8, st \in [q : Word, r : WideWord], byte \in Byte] ==
            IF k = 8 THEN st ELSE Bits[k + 1, BitStep(st, BitOf(byte, k + 1)), byte]
        ByteStep(st, byte) ==
            LET r8 == Tail(st.r) \o <<byte>>
            IN  IF GeqN(r8, bw) THEN Bits[0, st, byte]
                ELSE [q |-> Tail(st.q) \o <<0>>, r |-> r8]
        Bytes[j \in 1..WordBytes + 1, st \in [q : Word, r : WideWord]] ==
            IF j > WordBytes THEN st ELSE Bytes[j + 1, ByteStep(st, a[j])]
        end == Bytes[1, [q |-> [i \in 1..WordBytes |-> 0], r |-> [i \in 1..WordBytes + 1 |-> 0]]]
    IN  [q |-> end.q, r |-> Tail(end.r)]

\* the `/` of U256 for a nonzero divisor
U256_div(a, b) == DivRem(a, b).q

\* the `%` of U256 for a nonzero divisor
U256_rem(a, b) == DivRem(a, b).r

\* sign bit of the two's-complement reading (I256::from_limbs keeps the bits)
IsNegative(a) == a[1] >= 128

\* two's-complement negation
NegW(a) == AddN(NotN(a), U256_ZERO, 1)

\* absolute value of the two's-complement reading, as an unsigned word
AbsW(a) == IF IsNegative(a) THEN NegW(a) ELSE a

\* I256 division truncates towards zero; MIN / -1 overflows
I256_div_overflows(a, b) == a = I256_MIN /\ b = U256_MAX

\* the wrapped result of the `/` of I256 for a nonzero divisor
I256_div(a, b) ==
    LET q == U256_div(AbsW(a), AbsW(b))
    IN  IF IsNegative(a) # IsNegative(b) THEN NegW(q) ELSE q

(***************************************************************************)
(* The evaluation stack, crates/primitives/src/stack.rs.                   *)
(***************************************************************************)
\* the capacity tested by Stack::push
StackLimit == 1024

\* Option<B256>
None == <<"None">>
Some(v) == <<"Some", v>>

\* Result<(), EvmErrors>
Ok == <<"Ok">>
Err_StackTooDeep == <<"Err", "StackTooDeep">>

\* Stack::push with the capacity test written `>` for `>=`
Stack_push_OffByOne(data, value) ==
    IF Len(data) > StackLimit
    THEN [data |-> data, result |-> Err_StackTooDeep]
    ELSE [data |-> Append(data, value), result |-> Ok]

\* Stack::push that drops a value pushed on a full stack without reporting it
Stack_push_Silent(data, value) ==
    IF Len(data) >= StackLimit
    THEN [data |-> data, result |-> Ok]
    ELSE [data |-> Append(data, value), result |-> Ok]

\* Stack::push: the data after the call and the value returned
Stack_push(data, value) ==
    IF Len(data) >= StackLimit
    THEN [data |-> data, result |-> Err_StackTooDeep]
    ELSE [data |-> Append(data, value), result |-> Ok]

\* Stack::pop that answers an empty stack with a default value (unwrap_or_default)
Stack_pop_Defaulting(data) ==
    IF Len(data) = 0
    THEN [data |-> data, result |-> Some([i \in 1..WordBytes |-> 0])]
    ELSE [data |-> SubSeq(data, 1, Len(data) - 1), result |-> Some(data[Len(data)])]

\* Stack::pop that takes the oldest value (Vec::remove(0)) instead of the newest
Stack_pop_Oldest(data) ==
    IF Len(data) = 0
    THEN [data |-> data, result |-> None]
    ELSE [data |-> Tail(data), result |-> Some(Head(data))]

\* Stack::pop, which is Vec::pop: the data after the call and the value returned
Stack_pop(data) ==
    IF Len(data) = 0
    THEN [data |-> data, result |-> None]
    ELSE [data |-> SubSeq(data, 1, Len(data) - 1), result |-> Some(data[Len(data)])]

\* Stack::len
Stack_len(data) == Len(data)

\* Stack::is_empty
Stack_is_empty(data) == Len(data) = 0

(***************************************************************************)
(* Opcodes.  crates/evm_core/src/opcodes.rs is not among the sources; the  *)
(* byte values are those of bins/evm/src/main.rs and of the reference the  *)
(* handlers cite (evm.codes), and the assigned opcodes are those the       *)
(* specification lists.                                                    *)
(***************************************************************************)
OP_STOP == 0
OP_ADD == 1
OP_MUL == 2
OP_SUB == 3
OP_DIV == 4
OP_SDIV == 5
OP_MOD == 6
OP_SMOD == 7
OP_ADDMOD == 8
OP_MULMOD == 9
OP_POP == 80
OP_MLOAD == 81
OP_MSTORE == 82
OP_MSTORE8 == 83
OP_SLOAD == 84
OP_SSTORE == 85
OP_JUMP == 86
OP_JUMPI == 87
OP_JUMPDEST == 91
OP_PUSH0 == 95
OP_PUSH1 == 96
OP_PUSH32 == 127

\* the bytes Opcode::from_u8 maps to an Opcode
AssignedOpcodes ==
    (0..11) \cup (16..26) \cup {48, 49, 50, 52, 53, 58} \cup {64, 65, 66, 67, 69, 70}
        \cup (80..91) \cup {94, 95} \cup (96..159)

\* Opcode::from_u8
Opcode_from_u8(raw) == IF raw \in AssignedOpcodes THEN Some(raw) ELSE None

(***************************************************************************)
(* The execution context and the account storage.  The record types of     *)
(* crates/primitives/src/evm_types.rs are not among the sources; their     *)
(* fields are those the sources read and write.                            *)
(***************************************************************************)
\* an Address is a sequence of 20 bytes
AddressBytes == 20

\* the address whose last byte is n, the others zero
Address_of(n) == [i \in 1..AddressBytes |-> IF i = AddressBytes THEN n ELSE 0]

\* Address::from_slice: Some(the address of the 20 bytes), or None where it panics,
\* the slice having another length
Address_from_slice(slice) == IF Len(slice) = AddressBytes THEN Some(slice) ELSE None

\* Address::ZERO
Address_ZERO == Address_of(0)

\* Transaction::default()
Transaction_default ==
    [from |-> Address_ZERO, to |-> Address_ZERO, value |-> U256_ZERO,
     nonce |-> U256_ZERO, data |-> <<>>, gas_limit |-> U256_ZERO]

\* BlockEnv::default()
BlockEnv_default ==
    [number |-> U256_ZERO, timestamp |-> U256_ZERO, coinbase |-> Address_ZERO,
     gas_limit |-> U256_ZERO, base_fee |-> U256_ZERO, block_hash |-> U256_ZERO,
     chain_id |-> U256_ZERO]

\* a HashMap is a function whose domain is the set of keys present
HashMap_new == <<>>

\* HashMap::get
HashMap_get(map, key) == IF key \in DOMAIN map THEN Some(map[key]) ELSE None

\* HashMap::insert
HashMap_insert(map, key, value) ==
    [k \in DOMAIN map \cup {key} |-> IF k = key THEN value ELSE map[k]]

\* EvmAccount::default(): no code, no balance, no slot
EvmAccount_default == [code |-> <<>>, balance |-> U256_ZERO, word |-> HashMap_new]

\* EvmStorage::default(): the data of a storage with no account
EvmStorage_default == HashMap_new

\* EvmStorage::s_load: Some(value), or None where the unwrap panics
EvmStorage_s_load(data, address, key) ==
    LET account == HashMap_get(data, address)
    IN  IF account = None THEN None ELSE HashMap_get(account[2].word, key)

\* a store that would start every write from a fresh account
EvmStorage_s_store_Fresh(data, address, key, value) ==
    HashMap_insert(data, address,
                   [EvmAccount_default EXCEPT !.word = HashMap_insert(@, key, value)])

\* EvmStorage::s_store: the data after the call
EvmStorage_s_store(data, address, key, value) ==
    LET account == IF address \in DOMAIN data THEN data[address]
                   ELSE EvmAccount_default
    IN  HashMap_insert(data, address,
                       [account EXCEPT !.word = HashMap_insert(@, key, value)])

(***************************************************************************)
(* The machine.  A machine value E is a record of the fields of Evm that   *)
(* the handlers touch, with the two observation fields panicked, nsteps.   *)
(***************************************************************************)
\* ProgramExitStatus
Success == "Success"
Failure == "Failure"
Default == "Default"

\* a Rust panic (unwrap on None or Err, index out of bounds): the process is aborted
Panic(E) == [E EXCEPT !.panicked = TRUE]

\* A usize (and a u64 limb) is 64 bits wide: the sequence of its 8 bytes, most
\* significant first.  Lengths and small counts stay integers.
UsizeBytes == 8

\* the usize of an integer n below 2^31 (a literal, a length, an index)
usize_from(n) ==
    [i \in 1..UsizeBytes |->
        IF i <= UsizeBytes - 4 THEN 0 ELSE (n \div (256 ^ (UsizeBytes - i))) % 256]

\* the usize is below 2^30, and then the integer it is
usize_small(u) == (\A i \in 1..UsizeBytes - 4 : u[i] = 0) /\ u[UsizeBytes - 3] < 64
usize_int(u) ==
    ((u[UsizeBytes - 3] * 256 + u[UsizeBytes - 2]) * 256 + u[UsizeBytes - 1]) * 256
        + u[UsizeBytes]

\* u < n for a usize u and an integer n of at most 2^30 (a length)
usize_lt(u, n) == usize_small(u) /\ usize_int(u) < n

\* Memory::load_byte: self.data[offset], which panics when offset is out of bounds
Memory_load_byte(data, offset) ==
    IF usize_lt(offset, Len(data)) THEN Some(data[usize_int(offset) + 1]) ELSE None

\* Memory::store_byte: Some(data after the call), or None where the index panics
Memory_store_byte(data, offset, byte) ==
    IF usize_lt(offset, Len(data))
    THEN Some([data EXCEPT ![usize_int(offset) + 1] = byte])
    ELSE None

\* a store that would write the word least significant byte first
Memory_store_word_LittleEndian(data, offset, word) ==
    IF usize_lt(offset, Len(data) - WordBytes + 1)
    THEN LET o == usize_int(offset)
         IN  Some(ByteString([i \in 1..Len(data) |->
                      IF i > o /\ i <= o + WordBytes
                      THEN word[WordBytes + 1 - (i - o)]
                      ELSE data[i]]))
    ELSE None

\* Memory::store_word: Some(data after the call), the 32 bytes of the word written
\* most significant first, or None where the slice offset..offset + 32 panics
Memory_store_word(data, offset, word) ==
    IF usize_lt(offset, Len(data) - WordBytes + 1)
    THEN LET o == usize_int(offset)
         IN  Some(ByteString([i \in 1..Len(data) |->
                      IF i > o /\ i <= o + WordBytes THEN word[i - o]
                      ELSE data[i]]))
    ELSE None

\* Memory::load_word: Some(the word read most significant byte first), or None where
\* the slice offset..offset + 32 panics
Memory_load_word(data, offset) ==
    IF usize_lt(offset, Len(data) - WordBytes + 1)
    THEN Some(SubSeq(data, usize_int(offset) + 1, usize_int(offset) + WordBytes))
    ELSE None

\* word.as_limbs()[0] as usize: the low 64 bits of the word
as_usize(word) == SubSeq(word, WordBytes - UsizeBytes + 1, WordBytes)

\* word.as_limbs()[0] as u8: the low byte of the word
as_u8(word) == word[WordBytes]

\* word.as_limbs()[0] != 0: a bit is set among the low 64 bits of the word
LowLimbNonZero(word) == \E i \in 25..WordBytes : word[i] # 0

\* the shape shared by add, sub, mul, div, sdiv, modulo and smod:
\*   let a = evm.stack.pop().unwrap(); let b = evm.stack.pop().unwrap();
\*   evm.stack.push(<value>).unwrap();

\* the two pops: the machine after them, and the operands unless an unwrap panicked
PopOperands(E) ==
    LET p1 == Stack_pop(E.stack)
        p2 == Stack_pop(p1.data)
    IN  IF p1.result = None THEN [E |-> Panic(E), ok |-> FALSE]
        ELSE IF p2.result = None
             THEN [E |-> Panic([E EXCEPT !.stack = p1.data]), ok |-> FALSE]
             ELSE [E |-> [E EXCEPT !.stack = p2.data], ok |-> TRUE,
                   a |-> p1.result[2], b |-> p2.result[2]]

\* the push of the value computed; values is the set of outcomes of computing it,
\* each <<"value", w>> or <<"panic">>
PushValue(E, values) ==
    { IF v[1] = "panic" THEN Panic(E)
      ELSE LET p3 == Stack_push(E.stack, v[2])
           IN  IF p3.result = Ok THEN [E EXCEPT !.stack = p3.data]
               ELSE Panic([E EXCEPT !.stack = p3.data])
      : v \in values }

\* stop
stop(E) == {[E EXCEPT !.status = Success]}

\* an addition that panics when the sum does not fit 256 bits
add_value_Checked(a, b) ==
    IF GeqN(wrapping_add(a, b), a) THEN {<<"value", wrapping_add(a, b)>>}
    ELSE {<<"panic">>}

\* add: a + b
add_value(a, b) == {<<"value", wrapping_add(a, b)>>}
add(E) ==
    LET p == PopOperands(E)
    IN  IF p.ok THEN PushValue(p.E, add_value(p.a, p.b)) ELSE {p.E}

\* sub: a - b, a being the first value popped
sub_value(a, b) == {<<"value", wrapping_sub(a, b)>>}
sub(E) ==
    LET p == PopOperands(E)
    IN  IF p.ok THEN PushValue(p.E, sub_value(p.a, p.b)) ELSE {p.E}

\* mul: a * b
mul_value(a, b) == {<<"value", wrapping_mul(a, b)>>}
mul(E) ==
    LET p == PopOperands(E)
    IN  IF p.ok THEN PushValue(p.E, mul_value(p.a, p.b)) ELSE {p.E}

\* div: zero when b is zero, else a / b
div_value(a, b) ==
    IF b = U256_ZERO THEN {<<"value", U256_ZERO>>} ELSE {<<"value", U256_div(a, b)>>}
div(E) ==
    LET p == PopOperands(E)
    IN  IF p.ok THEN PushValue(p.E, div_value(p.a, p.b)) ELSE {p.E}

\* sdiv: zero when b is zero, else the I256 quotient; the `/` of I256 on MIN / -1
\* overflows, which panics in a build with debug assertions and wraps otherwise
sdiv_value(a, b) ==
    IF b = U256_ZERO THEN {<<"value", U256_ZERO>>}
    ELSE IF I256_div_overflows(a, b) THEN {<<"value", I256_div(a, b)>>, <<"panic">>}
    ELSE {<<"value", I256_div(a, b)>>}
sdiv(E) ==
    LET p == PopOperands(E)
    IN  IF p.ok THEN PushValue(p.E, sdiv_value(p.a, p.b)) ELSE {p.E}

\* modulo: zero when b is zero, else a % b
modulo_value(a, b) ==
    IF b = U256_ZERO THEN {<<"value", U256_ZERO>>} ELSE {<<"value", U256_rem(a, b)>>}
modulo(E) ==
    LET p == PopOperands(E)
    IN  IF p.ok THEN PushValue(p.E, modulo_value(p.a, p.b)) ELSE {p.E}

\* smod: the same unsigned computation as modulo
smod_value(a, b) ==
    IF b = U256_ZERO THEN {<<"value", U256_ZERO>>} ELSE {<<"value", U256_rem(a, b)>>}
smod(E) ==
    LET p == PopOperands(E)
    IN  IF p.ok THEN PushValue(p.E, smod_value(p.a, p.b)) ELSE {p.E}

\* the three pops of addmod and mulmod: the machine after them, and the operands
\* unless an unwrap panicked
PopThree(E) ==
    LET p == PopOperands(E)
    IN  IF ~p.ok THEN p
        ELSE LET p3 == Stack_pop(p.E.stack)
             IN  IF p3.result = None THEN [E |-> Panic(p.E), ok |-> FALSE]
                 ELSE [E |-> [p.E EXCEPT !.stack = p3.data], ok |-> TRUE,
                       a |-> p.a, b |-> p.b, c |-> p3.result[2]]

\* addmod: zero when b is zero, (a + b) % c otherwise, the `%` of U256 panicking on a
\* zero divisor
addmod_value(a, b, c) ==
    IF b = U256_ZERO THEN {<<"value", U256_ZERO>>}
    ELSE IF c = U256_ZERO THEN {<<"panic">>}
         ELSE {<<"value", U256_rem(wrapping_add(a, b), c)>>}
addmod(E) ==
    LET p == PopThree(E)
    IN  IF p.ok THEN PushValue(p.E, addmod_value(p.a, p.b, p.c)) ELSE {p.E}

\* mulmod: zero when b is zero, (a * b) % c otherwise
mulmod_value(a, b, c) ==
    IF b = U256_ZERO THEN {<<"value", U256_ZERO>>}
    ELSE IF c = U256_ZERO THEN {<<"panic">>}
         ELSE {<<"value", U256_rem(wrapping_mul(a, b), c)>>}
mulmod(E) ==
    LET p == PopThree(E)
    IN  IF p.ok THEN PushValue(p.E, mulmod_value(p.a, p.b, p.c)) ELSE {p.E}

\* U256::from(bool): one or zero
U256_from_bool(flag) == IF flag THEN U256_from(1) ELSE U256_ZERO

\* lt: left.lt(&right), left being the first value popped
lt_value(left, right) == {<<"value", U256_from_bool(~GeqN(left, right))>>}
lt(E) ==
    LET p == PopOperands(E)
    IN  IF p.ok THEN PushValue(p.E, lt_value(p.a, p.b)) ELSE {p.E}

\* gt: left.gt(&right), left being the first value popped
gt_value(left, right) == {<<"value", U256_from_bool(~GeqN(right, left))>>}
gt(E) ==
    LET p == PopOperands(E)
    IN  IF p.ok THEN PushValue(p.E, gt_value(p.a, p.b)) ELSE {p.E}

\* the number of 64-bit limbs of a U256
Limbs == 4

\* U256::from(word.as_limbs()[k]): the k-th 64-bit limb of the word, limb 0 being the
\* least significant, as a word
U256_from_limb(word, k) ==
    [i \in 1..WordBytes - UsizeBytes |-> 0]
        \o SubSeq(word, WordBytes - UsizeBytes * (k + 1) + 1, WordBytes - UsizeBytes * k)

\* byte: zero when the low limb of index exceeds 32, else value.as_limbs()[index],
\* an array index that panics from 4 on
byte_value(index, value) ==
    IF ~usize_lt(as_usize(index), WordBytes + 1) THEN {<<"value", U256_ZERO>>}
    ELSE IF ~usize_lt(as_usize(index), Limbs) THEN {<<"panic">>}
         ELSE {<<"value", U256_from_limb(value, usize_int(as_usize(index)))>>}
byte(E) ==
    LET p == PopOperands(E)
    IN  IF p.ok THEN PushValue(p.E, byte_value(p.a, p.b)) ELSE {p.E}

\* a default entry that would trap
noop_Trapping(E) == {[E EXCEPT !.status = Failure]}

\* Uint::pow, which wraps: square and multiply from the least significant bit of the
\* exponent, as long as a bit of the exponent is left
U256_pow(base, exponent) ==
    LET Step(st, bit) ==
            [y |-> IF bit = 1 THEN wrapping_mul(st.y, st.x) ELSE st.y,
             x |-> wrapping_mul(st.x, st.x)]
        Bits[k \in 0..8, st \in [y : Word, x : Word], octet \in Byte] ==
            IF k = 0 THEN st
            ELSE Bits[k - 1, Step(st, BitOf(octet, k)), octet]
        Bytes[j \in 0..WordBytes, st \in [y : Word, x : Word]] ==
            IF j = 0 \/ \A i \in 1..j : exponent[i] = 0 THEN st
            ELSE Bytes[j - 1, Bits[8, st, exponent[j]]]
    IN  Bytes[WordBytes, [y |-> U256_from(1), x |-> base]].y

\* exp: base.pow(exponent), base being the first value popped
exp_value(base, exponent) == {<<"value", U256_pow(base, exponent)>>}
exp(E) ==
    LET p == PopOperands(E)
    IN  IF p.ok THEN PushValue(p.E, exp_value(p.a, p.b)) ELSE {p.E}

\* the `&` of two bytes and of two words
ByteAnd(x, y) ==
    LET f[k \in 0..8] == IF k = 0 THEN 0 ELSE 2 * f[k - 1] + BitOf(x, k) * BitOf(y, k)
    IN  f[8]
U256_bitand(a, b) == [i \in 1..WordBytes |-> ByteAnd(a[i], b[i])]

\* signextend: the integer itself when size_in_byte >= 32, else integer & mask with
\* mask = 2^(8 * size_in_byte) - 1, the word whose low size_in_byte bytes are 255
signextend_value(size_in_byte, integer) ==
    IF GeqN(size_in_byte, U256_from(WordBytes)) THEN {<<"value", integer>>}
    ELSE LET mask == [i \in 1..WordBytes |->
                         IF i > WordBytes - size_in_byte[WordBytes] THEN 255 ELSE 0]
         IN  {<<"value", U256_bitand(integer, mask)>>}
signextend(E) ==
    LET p == PopOperands(E)
    IN  IF p.ok THEN PushValue(p.E, signextend_value(p.a, p.b)) ELSE {p.E}

\* the `<` of I256: of two readings of different sign the negative one is less
I256_lt(a, b) == IF IsNegative(a) # IsNegative(b) THEN IsNegative(a) ELSE ~GeqN(a, b)

\* slt: left_int.lt(&right_int), left being the first value popped
slt_value(left, right) == {<<"value", U256_from_bool(I256_lt(left, right))>>}
slt(E) ==
    LET p == PopOperands(E)
    IN  IF p.ok THEN PushValue(p.E, slt_value(p.a, p.b)) ELSE {p.E}

\* sgt: left_int.gt(&right_int)
sgt_value(left, right) == {<<"value", U256_from_bool(I256_lt(right, left))>>}
sgt(E) ==
    LET p == PopOperands(E)
    IN  IF p.ok THEN PushValue(p.E, sgt_value(p.a, p.b)) ELSE {p.E}

\* eq: left.eq(&right)
eq_value(left, right) == {<<"value", U256_from_bool(left = right)>>}
eq(E) ==
    LET p == PopOperands(E)
    IN  IF p.ok THEN PushValue(p.E, eq_value(p.a, p.b)) ELSE {p.E}

\* is_zero: pop value, push value.is_zero()
is_zero(E) ==
    LET p == Stack_pop(E.stack)
    IN  IF p.result = None THEN {Panic(E)}
        ELSE PushValue([E EXCEPT !.stack = p.data],
                       {<<"value", U256_from_bool(p.result[2] = U256_ZERO)>>})

\* and: left.bitand(right)
and_value(left, right) == {<<"value", U256_bitand(left, right)>>}
and(E) ==
    LET p == PopOperands(E)
    IN  IF p.ok THEN PushValue(p.E, and_value(p.a, p.b)) ELSE {p.E}

\* mstore: pop offset, pop value, memory.store_word(offset, value)
mstore(E) ==
    LET p == PopOperands(E)
    IN  IF ~p.ok THEN {p.E}
        ELSE LET data == Memory_store_word(p.E.memory, as_usize(p.a), p.b)
             IN  IF data = None THEN {Panic(p.E)}
                 ELSE {[p.E EXCEPT !.memory = data[2]]}

\* the 20 bytes of an address padded on the left to a word
U256_from_address(account) == [i \in 1..WordBytes - AddressBytes |-> 0] \o account

\* address: push tx.to as a word
address(E) == PushValue(E, {<<"value", U256_from_address(E.tx.to)>>})

\* balance: push the balance of the account of tx.from; the unwrap panics when the
\* storage has no such account
balance(E) ==
    LET address_account == HashMap_get(E.storage, E.tx.from)
    IN  IF address_account = None THEN {Panic(E)}
        ELSE PushValue(E, {<<"value", address_account[2].balance>>})

\* origin: push tx.from as a word
origin(E) == PushValue(E, {<<"value", U256_from_address(E.tx.from)>>})

\* call_value: push tx.value
call_value(E) == PushValue(E, {<<"value", E.tx.value>>})

\* call_data_load: pop the offset; the read of tx.data and the push are commented out
call_data_load(E) ==
    LET p == Stack_pop(E.stack)
    IN  IF p.result = None THEN {Panic(E)} ELSE {[E EXCEPT !.stack = p.data]}

\* gas_price: push tx.gas_limit
gas_price(E) == PushValue(E, {<<"value", E.tx.gas_limit>>})

\* block_hash: pop block_number, push zero when it is above block_env.number; the
\* push of the hash is commented out
block_hash(E) ==
    LET p == Stack_pop(E.stack)
    IN  IF p.result = None THEN {Panic(E)}
        ELSE LET E1 == [E EXCEPT !.stack = p.data]
             IN  IF ~GeqN(E1.block_env.number, p.result[2])
                 THEN PushValue(E1, {<<"value", U256_ZERO>>})
                 ELSE {E1}

\* coin_base: push block_env.coinbase as a word
coin_base(E) == PushValue(E, {<<"value", U256_from_address(E.block_env.coinbase)>>})

\* timestamp, number, gas_limit, chain_id: push that field of block_env
timestamp(E) == PushValue(E, {<<"value", E.block_env.timestamp>>})
number(E) == PushValue(E, {<<"value", E.block_env.number>>})
gas_limit(E) == PushValue(E, {<<"value", E.block_env.gas_limit>>})
chain_id(E) == PushValue(E, {<<"value", E.block_env.chain_id>>})

\* jump_dest, pc, m_size and gas read a field and do nothing
jump_dest(E) == {E}
pc_op(E) == {E}
m_size(E) == {E}
gas(E) == {E}

\* m_copy: pop offset, length and dest; the copy is commented out
m_copy(E) ==
    LET p == PopThree(E)
    IN  {p.E}

\* noop, the default entry of the table
noop(E) == {E}

\* pop: the top of the stack is discarded
pop(E) ==
    LET p == Stack_pop(E.stack)
    IN  IF p.result = None THEN {Panic(E)} ELSE {[E EXCEPT !.stack = p.data]}

\* push_0
push_0(E) == PushValue(E, {<<"value", U256_ZERO>>})

\* m_load: pop offset, push memory.load_word(offset)
m_load(E) ==
    LET p == Stack_pop(E.stack)
    IN  IF p.result = None THEN {Panic(E)}
        ELSE LET E1 == [E EXCEPT !.stack = p.data]
                 word == Memory_load_word(E1.memory, as_usize(p.result[2]))
             IN  IF word = None THEN {Panic(E1)}
                 ELSE PushValue(E1, {<<"value", word[2]>>})

\* m_store: pop offset, pop value, memory.store_word(offset, value)
m_store(E) ==
    LET p == PopOperands(E)
    IN  IF ~p.ok THEN {p.E}
        ELSE LET data == Memory_store_word(p.E.memory, as_usize(p.a), p.b)
             IN  IF data = None THEN {Panic(p.E)}
                 ELSE {[p.E EXCEPT !.memory = data[2]]}

\* m_store8: pop offset, pop value, memory.store_byte(offset, low byte of value)
m_store8(E) ==
    LET p == PopOperands(E)
    IN  IF ~p.ok THEN {p.E}
        ELSE LET data == Memory_store_byte(p.E.memory, as_usize(p.a), as_u8(p.b))
             IN  IF data = None THEN {Panic(p.E)}
                 ELSE {[p.E EXCEPT !.memory = data[2]]}

\* s_load: pop the key, storage.s_load(tx.to, key); the push of the word read is
\* commented out
s_load(E) ==
    LET p == Stack_pop(E.stack)
    IN  IF p.result = None THEN {Panic(E)}
        ELSE LET E1 == [E EXCEPT !.stack = p.data]
                 word == EvmStorage_s_load(E1.storage, E1.tx.to, p.result[2])
             IN  IF word = None THEN {Panic(E1)} ELSE {E1}

\* s_store: pop offset, pop value, storage.s_store(tx.to, offset, value)
s_store(E) ==
    LET p == PopOperands(E)
    IN  IF ~p.ok THEN {p.E}
        ELSE {[p.E EXCEPT !.storage = EvmStorage_s_store(@, p.E.tx.to, p.a, p.b)]}

\* jump: pop target, pc = target
jump(E) ==
    LET p == Stack_pop(E.stack)
    IN  IF p.result = None THEN {Panic(E)}
        ELSE {[E EXCEPT !.stack = p.data, !.pc = as_usize(p.result[2])]}

\* jumpi: pop target, pop condition, pc = target if the condition's low limb is not 0
jumpi(E) ==
    LET p == PopOperands(E)
    IN  IF ~p.ok THEN {p.E}
        ELSE IF LowLimbNonZero(p.b) THEN {[p.E EXCEPT !.pc = as_usize(p.a)]}
             ELSE {p.E}

\* build_jump_table: the handler stored at each index
build_jump_table(op) ==
    CASE op = OP_STOP -> "stop"
      [] op = OP_ADD  -> "add"
      [] op = OP_SUB  -> "sub"
      [] op = OP_MUL  -> "mul"
      [] op = OP_DIV  -> "div"
      [] op = OP_SDIV -> "sdiv"
      [] op = OP_SMOD -> "smod"
      [] op = OP_MOD  -> "modulo"
      [] OTHER        -> "noop"

\* the handler written for each opcode in operations/ariths.rs, for the opcodes whose
\* handler is modelled
HandledOpcodes ==
    {OP_STOP, OP_ADD, OP_MUL, OP_SUB, OP_DIV, OP_SDIV, OP_MOD, OP_SMOD, OP_ADDMOD,
     OP_MULMOD, OP_POP, OP_MLOAD, OP_MSTORE, OP_MSTORE8, OP_SLOAD, OP_SSTORE,
     OP_JUMP, OP_JUMPI, OP_PUSH0}
HandlerOf(op) ==
    CASE op = OP_STOP    -> "stop"
      [] op = OP_ADD     -> "add"
      [] op = OP_MUL     -> "mul"
      [] op = OP_SUB     -> "sub"
      [] op = OP_DIV     -> "div"
      [] op = OP_SDIV    -> "sdiv"
      [] op = OP_MOD     -> "modulo"
      [] op = OP_SMOD    -> "smod"
      [] op = OP_ADDMOD  -> "addmod"
      [] op = OP_MULMOD  -> "mulmod"
      [] op = OP_POP     -> "pop"
      [] op = OP_MLOAD   -> "m_load"
      [] op = OP_MSTORE  -> "m_store"
      [] op = OP_MSTORE8 -> "m_store8"
      [] op = OP_SLOAD   -> "s_load"
      [] op = OP_SSTORE  -> "s_store"
      [] op = OP_JUMP    -> "jump"
      [] op = OP_JUMPI   -> "jumpi"
      [] op = OP_PUSH0   -> "push_0"

\* calling a handler on the machine
Call(handler, E) ==
    CASE handler = "stop"   -> stop(E)
      [] handler = "add"    -> add(E)
      [] handler = "sub"    -> sub(E)
      [] handler = "mul"    -> mul(E)
      [] handler = "div"    -> div(E)
      [] handler = "sdiv"   -> sdiv(E)
      [] handler = "smod"   -> smod(E)
      [] handler = "modulo" -> modulo(E)
      [] handler = "noop"   -> noop(E)
      [] handler = "addmod" -> addmod(E)
      [] handler = "mulmod" -> mulmod(E)
      [] handler = "lt"     -> lt(E)
      [] handler = "gt"     -> gt(E)
      [] handler = "byte"   -> byte(E)
      [] handler = "pop"    -> pop(E)
      [] handler = "push_0" -> push_0(E)
      [] handler = "m_load" -> m_load(E)
      [] handler = "m_store" -> m_store(E)
      [] handler = "m_store8" -> m_store8(E)
      [] handler = "s_load" -> s_load(E)
      [] handler = "s_store" -> s_store(E)
      [] handler = "jump"   -> jump(E)
      [] handler = "jumpi"  -> jumpi(E)
      [] handler = "exp"    -> exp(E)
      [] handler = "signextend" -> signextend(E)
      [] handler = "slt"    -> slt(E)
      [] handler = "sgt"    -> sgt(E)
      [] handler = "eq"     -> eq(E)
      [] handler = "is_zero" -> is_zero(E)
      [] handler = "and"    -> and(E)
      [] handler = "mstore" -> mstore(E)
      [] handler = "address" -> address(E)
      [] handler = "balance" -> balance(E)
      [] handler = "origin" -> origin(E)
      [] handler = "call_value" -> call_value(E)
      [] handler = "call_data_load" -> call_data_load(E)
      [] handler = "gas_price" -> gas_price(E)
      [] handler = "block_hash" -> block_hash(E)
      [] handler = "coin_base" -> coin_base(E)
      [] handler = "timestamp" -> timestamp(E)
      [] handler = "number" -> number(E)
      [] handler = "gas_limit" -> gas_limit(E)
      [] handler = "chain_id" -> chain_id(E)
      [] handler = "jump_dest" -> jump_dest(E)
      [] handler = "pc"     -> pc_op(E)
      [] handler = "m_size" -> m_size(E)
      [] handler = "gas"    -> gas(E)
      [] handler = "m_copy" -> m_copy(E)

\* the step counter saturates at MaxSteps
Bump(n) == IF n < MaxSteps THEN n + 1 ELSE n

\* Evm::step: fetch the byte at pc, decode it, call its handler; pc is left to the handler
step(E) ==
    LET raw_instruction == Memory_load_byte(E.memory, E.pc)
    IN  IF raw_instruction = None THEN {Panic(E)}
        ELSE LET instruction == Opcode_from_u8(raw_instruction[2])
             IN  IF instruction = None THEN {Panic(E)}
                 ELSE Call(build_jump_table(instruction[2]),
                           [E EXCEPT !.nsteps = Bump(E.nsteps)])

\* the loop of execute(): memory.store_byte(i, bytes[i]) for each i in turn, which
\* panics at the first i that is not an offset of the memory
StoreBytes(E, bytes) ==
    [E EXCEPT !.memory = ByteString([i \in 1..Len(E.memory) |->
                             IF i <= Len(bytes) THEN bytes[i] ELSE E.memory[i]]),
              !.panicked = Len(bytes) > Len(E.memory)]

\* an execute() that takes the payload out of the transaction as it seeds the memory
execute_TakingData(E) ==
    IF E.tx.to = Address_ZERO /\ ~Stack_is_empty(E.stack)
    THEN {[StoreBytes(E, E.tx.data) EXCEPT !.tx.data = <<>>]}
    ELSE IF E.tx.to # Address_ZERO
         THEN LET account == HashMap_get(E.storage, E.tx.to)
              IN  IF account = None THEN {Panic(E)}
                  ELSE {StoreBytes(E, account[2].code)}
         ELSE {E}

\* Evm::execute: the memory is seeded with tx.data when tx.to is the zero address and
\* the stack is not empty, and with the code of the account tx.to when tx.to is another
\* address, the unwrap panicking when there is no such account
execute(E) ==
    IF E.tx.to = Address_ZERO /\ ~Stack_is_empty(E.stack)
    THEN {StoreBytes(E, E.tx.data)}
    ELSE IF E.tx.to # Address_ZERO
         THEN LET account == HashMap_get(E.storage, E.tx.to)
              IN  IF account = None THEN {Panic(E)}
                  ELSE {StoreBytes(E, account[2].code)}
         ELSE {E}

\* a loop of run() that only stops on a failure
RunCondition_UntilFailure(st) == st # Failure

\* the condition of the loop of Evm::run
RunCondition(st) == st = Default

(***************************************************************************)
(* The interpreter: construction, step() and run().                        *)
(***************************************************************************)
\* the memory size of the example driver, vec![0u8; 1024]
MainMemorySize == 1024

\* store_byte of every byte of code into a zeroed memory of the given size
Seeded(code, size) == [i \in 1..size |-> IF i <= Len(code) THEN code[i] ELSE 0]

\* call_data of bins/evm/src/main.rs:
\* PUSH1 6, PUSH1 7, ADD, PUSH1 0, MSTORE, PUSH1 0, MLOAD, STOP
ScenarioA ==
    <<OP_PUSH1, 6, OP_PUSH1, 7, OP_ADD, OP_PUSH1, 0, OP_MSTORE, OP_PUSH1, 0, OP_MLOAD, OP_STOP>>

\* the code PUSH1 10, PUSH1 0, DIV, STOP
ScenarioB == <<OP_PUSH1, 10, OP_PUSH1, 0, OP_DIV, OP_STOP>>

\* the memories a machine is constructed with: every one-byte code, the empty memory,
\* the example of main.rs, a push with no STOP, short arithmetic codes, and a
\* division by zero
Programs ==
    {<<b>> : b \in Byte}
        \cup {<<>>, Seeded(ScenarioA, MainMemorySize), <<OP_PUSH1, 5>>,
              <<OP_ADD, OP_STOP>>, <<OP_SUB, OP_MUL, OP_STOP>>, ScenarioB}

\* the words a machine's stack is pre-seeded with
InitWords == {U256_from(0), U256_from(1), U256_from(7), U256_MAX}

\* the stacks a machine is constructed with
InitStacks == UNION {[1..n -> InitWords] : n \in 0..MaxInitDepth}

\* the machine value of the current state
Cur ==
    [memory |-> memory, stack |-> stack, pc |-> pc, status |-> status,
     panicked |-> panicked, nsteps |-> nsteps,
     tx |-> tx, block_env |-> block_env, storage |-> storage]

\* the next state holds the machine value E
Becomes(E) ==
    /\ memory' = E.memory
    /\ stack' = E.stack
    /\ pc' = E.pc
    /\ status' = E.status
    /\ panicked' = E.panicked
    /\ nsteps' = E.nsteps
    /\ tx' = E.tx
    /\ block_env' = E.block_env
    /\ storage' = E.storage

\* Evm::new: pc = 0 and status = ProgramExitStatus::default()
Init ==
    /\ memory \in Programs
    /\ stack \in InitStacks
    /\ pc = usize_from(0)
    /\ status = Default
    /\ panicked = FALSE
    /\ caller = "idle"
    /\ nsteps = 0
    /\ ret = <<"none">>
    /\ trace = <<>>
    /\ tx = Transaction_default
    /\ block_env = BlockEnv_default
    /\ storage = EvmStorage_default

\* a call of step() by the embedding code
CallStep ==
    /\ caller # "run"
    /\ ~panicked
    /\ \E E \in step(Cur) : Becomes(E)
    /\ UNCHANGED <<caller, ret, trace>>

\* a call of run() by the embedding code enters the loop
CallRun ==
    /\ caller # "run"
    /\ ~panicked
    /\ caller' = "run"
    /\ UNCHANGED <<memory, stack, pc, status, panicked, nsteps, ret, trace,
                   tx, block_env, storage>>

\* one iteration of the loop of run(): the condition holds and step() is called
RunIter ==
    /\ caller = "run"
    /\ ~panicked
    /\ RunCondition(status)
    /\ \E E \in step(Cur) : Becomes(E)
    /\ UNCHANGED <<caller, ret, trace>>

\* the loop of run() ends: the condition fails and run() returns
RunReturn ==
    /\ caller = "run"
    /\ ~panicked
    /\ ~RunCondition(status)
    /\ caller' = "ran"
    /\ UNCHANGED <<memory, stack, pc, status, panicked, nsteps, ret, trace,
                   tx, block_env, storage>>

Next == CallStep \/ CallRun \/ RunIter \/ RunReturn

Spec == Init /\ [][Next]_vars

\* the memories of the machines whose runs are followed to their end: the example of
\* main.rs, the empty memory, and every code that starts with STOP or with a byte
\* that has no handler
RunPrograms ==
    {m \in Programs : Len(m) = 0 \/ build_jump_table(m[1]) \in {"stop", "noop"}}

InitRun ==
    /\ memory \in RunPrograms
    /\ stack \in InitStacks
    /\ pc = usize_from(0)
    /\ status = Default
    /\ panicked = FALSE
    /\ caller = "idle"
    /\ nsteps = 0
    /\ ret = <<"none">>
    /\ trace = <<>>
    /\ tx = Transaction_default
    /\ block_env = BlockEnv_default
    /\ storage = EvmStorage_default

\* run() is a sequential loop: an iteration that can be taken is taken
FairSpec == InitRun /\ [][Next]_vars /\ WF_vars(RunIter) /\ WF_vars(RunReturn)

(***************************************************************************)
(* The interpreter with its context: construction with a transaction, a    *)
(* block environment and a storage, then execute(), step() and run().      *)
(***************************************************************************)
\* the memories of the machines: none, one byte, four zero bytes
ExecMemories == {<<>>, <<OP_STOP>>, <<0, 0, 0, 0>>}

\* a contract creation whose payload is ADD, STOP, and a call of the account 1
ExecTxs ==
    {[Transaction_default EXCEPT !.from = Address_of(2), !.data = <<OP_ADD, OP_STOP>>,
                                 !.gas_limit = U256_from(100000)],
     [Transaction_default EXCEPT !.from = Address_of(2), !.to = Address_of(1)]}

\* the storage with no account, and the one where the account 1 has the code STOP, ADD
ExecStorages ==
    {EvmStorage_default,
     HashMap_insert(EvmStorage_default, Address_of(1),
                    [EvmAccount_default EXCEPT !.code = <<OP_STOP, OP_ADD>>])}

\* BlockEnv::default(), and the environment of a later block
ExecBlockEnvs ==
    {BlockEnv_default,
     [BlockEnv_default EXCEPT !.number = U256_from(123), !.chain_id = U256_from(1)]}

InitExec ==
    /\ memory \in ExecMemories
    /\ stack \in InitStacks
    /\ pc = usize_from(0)
    /\ status = Default
    /\ panicked = FALSE
    /\ caller = "idle"
    /\ nsteps = 0
    /\ ret = <<"none">>
    /\ trace = <<>>
    /\ tx \in ExecTxs
    /\ block_env \in ExecBlockEnvs
    /\ storage \in ExecStorages

\* a logged call of execute() by the embedding code, one of at most MaxExecutes calls
CallExecute ==
    /\ caller # "run"
    /\ ~panicked
    /\ Len(trace) < MaxExecutes
    /\ \E E \in execute(Cur) : Becomes(E)
    /\ trace' = Append(trace, "execute")
    /\ UNCHANGED <<caller, ret>>

NextExec == CallExecute \/ CallStep \/ CallRun \/ RunIter \/ RunReturn

SpecExec == InitExec /\ [][NextExec]_vars

(***************************************************************************)
(* The stack on its own: calls of Stack::push and Stack::pop.              *)
(***************************************************************************)
\* make_b256 of the tests: the 32-byte value whose last byte is n
make_b256(n) == [i \in 1..WordBytes |-> IF i = WordBytes THEN n ELSE 0]

\* the values pushed on a shallow stack
PushWords == {make_b256(1), make_b256(2), make_b256(3)}

\* the values a push may take: any of PushWords while the stack is shallow, and
\* make_b256(i % 256) at depth i beyond that, as in tests::push_enforces_max_depth
PushChoices(data) ==
    IF Len(data) < FreeDepth THEN PushWords ELSE {make_b256(Len(data) % 256)}

\* Stack::default()
InitStack ==
    /\ memory = <<>>
    /\ stack = <<>>
    /\ pc = usize_from(0)
    /\ status = Default
    /\ panicked = FALSE
    /\ caller = "idle"
    /\ nsteps = 0
    /\ ret = <<"none">>
    /\ trace = <<>>
    /\ tx = Transaction_default
    /\ block_env = BlockEnv_default
    /\ storage = EvmStorage_default

\* a call stack.push(value)
PushCall ==
    \E value \in PushChoices(stack) :
        LET r == Stack_push(stack, value)
        IN  /\ stack' = r.data
            /\ ret' = <<"push", value, r.result>>
            /\ UNCHANGED <<memory, pc, status, panicked, caller, nsteps, trace,
                         tx, block_env, storage>>

\* a call stack.pop()
PopCall ==
    LET r == Stack_pop(stack)
    IN  /\ stack' = r.data
        /\ ret' = <<"pop", r.result>>
        /\ UNCHANGED <<memory, pc, status, panicked, caller, nsteps, trace,
                         tx, block_env, storage>>

NextStack == PushCall \/ PopCall

SpecStack == InitStack /\ [][NextStack]_vars

\* a logged call stack.push(value), one of at most MaxOps calls
LoggedPush ==
    /\ Len(trace) < MaxOps
    /\ \E value \in PushWords :
        LET r == Stack_push(stack, value)
        IN  /\ stack' = r.data
            /\ ret' = <<"push", value, r.result>>
            /\ trace' = Append(trace, ret')
            /\ UNCHANGED <<memory, pc, status, panicked, caller, nsteps,
                         tx, block_env, storage>>

\* a logged call stack.pop(), one of at most MaxOps calls
LoggedPop ==
    /\ Len(trace) < MaxOps
    /\ LET r == Stack_pop(stack)
       IN  /\ stack' = r.data
           /\ ret' = <<"pop", r.result>>
           /\ trace' = Append(trace, ret')
           /\ UNCHANGED <<memory, pc, status, panicked, caller, nsteps,
                         tx, block_env, storage>>

NextLifo == LoggedPush \/ LoggedPop

SpecLifo == InitStack /\ [][NextLifo]_vars

(***************************************************************************)
(* The handlers on their own: the pub fns of operations/ariths.rs called   *)
(* on a machine by the embedding code, without the loop.                   *)
(***************************************************************************)
\* the handlers called: those of the stack, memory, storage and control-flow opcodes,
\* with add and sub
Handlers ==
    {"stop", "add", "sub", "pop", "push_0", "m_load", "m_store", "m_store8",
     "s_load", "s_store", "jump", "jumpi"}

\* the memory of the machines the handlers are called on, 64 bytes: PUSH1 0x5b at
\* offset 0, JUMPDEST at offset 7, STOP everywhere else
OpsMemory ==
    [i \in 1..2 * WordBytes |->
        CASE i = 1 -> OP_PUSH1
          [] i = 2 -> OP_JUMPDEST
          [] i = 8 -> OP_JUMPDEST
          [] OTHER -> OP_STOP]

\* the stacks of the machines the handlers are called on
OpsStacks == UNION {[1..n -> InitWords] : n \in 0..MaxOpsDepth}

\* a transaction sent by the account 2 to the account 1
OpsTx == [Transaction_default EXCEPT !.from = Address_of(2), !.to = Address_of(1)]

InitOps ==
    /\ memory = OpsMemory
    /\ stack \in OpsStacks
    /\ pc = usize_from(0)
    /\ status = Default
    /\ panicked = FALSE
    /\ caller = "idle"
    /\ nsteps = 0
    /\ ret = <<"none">>
    /\ trace = <<>>
    /\ tx = OpsTx
    /\ block_env = BlockEnv_default
    /\ storage = EvmStorage_default

\* a logged call handler(&mut evm), one of at most MaxCalls calls; the log keeps the
\* handler and the machine it was called on
CallHandler ==
    /\ Len(trace) < MaxCalls
    /\ ~panicked
    /\ \E handler \in Handlers :
        \E E \in Call(handler, Cur) :
            /\ Becomes(E)
            /\ trace' = Append(trace, [handler |-> handler, before |-> Cur])
    /\ UNCHANGED <<caller, ret>>

NextOps == CallHandler

SpecOps == InitOps /\ [][NextOps]_vars

(***************************************************************************)
(* One handler called on a machine whose stack holds its operands.         *)
(***************************************************************************)
\* the handlers called: the arithmetic, comparison and bitwise handlers, the handlers
\* that read the transaction, the block environment and the account storage, mstore,
\* m_copy, jumpi and the handlers that do nothing
CallHandlers ==
    {"add", "sub", "mul", "div", "sdiv", "modulo", "smod", "addmod", "mulmod",
     "exp", "signextend", "lt", "gt", "slt", "sgt", "eq", "is_zero", "and", "byte",
     "mstore", "address", "balance", "origin", "call_value", "call_data_load",
     "gas_price", "block_hash", "coin_base", "timestamp", "number", "gas_limit",
     "chain_id", "jump_dest", "pc", "m_size", "gas", "m_copy", "jumpi"}

\* 2^64, the least word whose low limb is zero
U256_2_64 == [i \in 1..WordBytes |-> IF i = WordBytes - 8 THEN 1 ELSE 0]

\* the operands: 0, 2, 7, -7, -1 (2^256 - 1), -2^255 and 2^64
CallWords ==
    {U256_ZERO, U256_from(2), U256_from(7), NegW(U256_from(7)), U256_MAX, I256_MIN,
     U256_2_64}

\* the third operand, the modulus of addmod and mulmod: 0 and 7
CallModuli == {U256_ZERO, U256_from(7)}

\* the stacks: three operands, the most any of the handlers pops, and the full stack
CallStacks ==
    {<<c, b, a>> : c \in CallModuli, b \in CallWords, a \in CallWords}
        \cup {[i \in 1..StackLimit |-> U256_ZERO]}

\* a transaction, a block environment and a storage whose fields differ from one
\* another, the account of tx.from holding a balance
CallTx ==
    [from |-> Address_of(2), to |-> Address_of(1), value |-> U256_from(5),
     nonce |-> U256_from(1), data |-> <<1, 2, 3>>, gas_limit |-> U256_from(100000)]
CallBlockEnv ==
    [number |-> U256_from(7), timestamp |-> U256_from(1000), coinbase |-> Address_of(3),
     gas_limit |-> U256_from(30000), base_fee |-> U256_from(4), block_hash |-> U256_MAX,
     chain_id |-> U256_from(6)]
CallStorage ==
    HashMap_insert(EvmStorage_default, Address_of(2),
                   [EvmAccount_default EXCEPT !.balance = U256_from(9)])

\* the stacks the handlers of the context are called on: none, 7 and 1, a block
\* number below and one above block_env.number, and the full stack
CallContextStacks ==
    {<<>>, <<U256_from(7), U256_from(1)>>, <<U256_from(1), U256_from(7), U256_from(8)>>,
     [i \in 1..StackLimit |-> U256_ZERO]}

InitCall ==
    /\ memory = OpsMemory
    /\ pc = usize_from(0)
    /\ status = Default
    /\ panicked = FALSE
    /\ caller = "idle"
    /\ nsteps = 0
    /\ ret = <<"none">>
    /\ trace = <<>>
    /\ \/ /\ stack \in CallStacks \cup CallContextStacks
          /\ tx = OpsTx
          /\ block_env = BlockEnv_default
          /\ storage = EvmStorage_default
       \/ /\ stack \in CallContextStacks
          /\ tx = CallTx
          /\ block_env = CallBlockEnv
          /\ storage = CallStorage

\* the call handler(&mut evm) on the machine constructed; the log keeps the handler
\* and the machine it was called on
CallOnce ==
    /\ trace = <<>>
    /\ \E handler \in CallHandlers :
        \E E \in Call(handler, Cur) :
            /\ Becomes(E)
            /\ trace' = <<[handler |-> handler, before |-> Cur]>>
    /\ UNCHANGED <<caller, ret>>

NextCall == CallOnce

SpecCall == InitCall /\ [][NextCall]_vars

(***************************************************************************)
(* The memory on its own: calls of Memory::store_word, load_word,          *)
(* store_byte and load_byte.                                               *)
(***************************************************************************)
\* Memory::new(): no byte
Memory_new == <<>>

\* Memory::new_with_data(vec![0u8; MemLen])
ZeroMemory == [i \in 1..MemLen |-> 0]

\* the offsets of the calls: the first ones, and the current length of the memory
MemOffsets(data) == 0..MaxOffset \cup {Len(data)}

\* the words stored: 2^256 - 1, and the word whose bytes are 1, 2, .. 32
MemWords == {U256_MAX, [i \in 1..WordBytes |-> i]}

\* the bytes stored
MemBytes == {171}

InitMemory ==
    /\ memory \in {Memory_new, ZeroMemory}
    /\ stack = <<>>
    /\ pc = usize_from(0)
    /\ status = Default
    /\ panicked = FALSE
    /\ caller = "idle"
    /\ nsteps = 0
    /\ ret = <<"none">>
    /\ trace = <<>>
    /\ tx = Transaction_default
    /\ block_env = BlockEnv_default
    /\ storage = EvmStorage_default

\* a call is logged with the memory it found and the memory it left; a call that
\* panics leaves the memory as it found it and ends the process
MemoryCall(call, offset, value, after, result) ==
    /\ memory' = (IF after = None THEN memory ELSE after[2])
    /\ panicked' = (after = None)
    /\ ret' = result
    /\ trace' = Append(trace, [call |-> call, offset |-> offset, value |-> value,
                               result |-> result, before |-> memory,
                               after |-> memory'])
    /\ UNCHANGED <<stack, pc, status, caller, nsteps, tx, block_env, storage>>

\* a logged call memory.store_word(offset, word)
StoreWordCall ==
    /\ Len(trace) < MaxMemOps /\ ~panicked
    /\ \E offset \in MemOffsets(memory), word \in MemWords :
        LET after == Memory_store_word(memory, usize_from(offset), word)
        IN  MemoryCall("store_word", offset, word, after,
                       IF after = None THEN <<"panic">> ELSE <<"unit">>)

\* a logged call memory.load_word(offset)
LoadWordCall ==
    /\ Len(trace) < MaxMemOps /\ ~panicked
    /\ \E offset \in MemOffsets(memory) :
        LET word == Memory_load_word(memory, usize_from(offset))
        IN  MemoryCall("load_word", offset, <<>>,
                       IF word = None THEN None ELSE Some(memory),
                       IF word = None THEN <<"panic">> ELSE word)

\* a logged call memory.store_byte(offset, byte)
StoreByteCall ==
    /\ Len(trace) < MaxMemOps /\ ~panicked
    /\ \E offset \in MemOffsets(memory), octet \in MemBytes :
        LET after == Memory_store_byte(memory, usize_from(offset), octet)
        IN  MemoryCall("store_byte", offset, octet, after,
                       IF after = None THEN <<"panic">> ELSE <<"unit">>)

\* a logged call memory.load_byte(offset)
LoadByteCall ==
    /\ Len(trace) < MaxMemOps /\ ~panicked
    /\ \E offset \in MemOffsets(memory) :
        LET octet == Memory_load_byte(memory, usize_from(offset))
        IN  MemoryCall("load_byte", offset, <<>>,
                       IF octet = None THEN None ELSE Some(memory),
                       IF octet = None THEN <<"panic">> ELSE octet)

NextMemory == StoreWordCall \/ LoadWordCall \/ StoreByteCall \/ LoadByteCall

SpecMemory == InitMemory /\ [][NextMemory]_vars

(***************************************************************************)
(* The storage on its own: calls of EvmStorage::s_load and s_store.        *)
(***************************************************************************)
\* the addresses, keys and values of the calls
StorageAddresses == {Address_of(1), Address_of(2)}
StorageKeys == {U256_from(1), U256_from(2)}
StorageValues == {U256_from(42), U256_ZERO}

\* the storage with no account, and one given to Evm::new with an account that has
\* code, a balance and a slot
FundedStorage ==
    HashMap_insert(EvmStorage_default, Address_of(1),
                   [code |-> <<OP_STOP>>, balance |-> U256_from(7),
                    word |-> HashMap_insert(HashMap_new, U256_from(1), U256_from(42))])
InitStorages == {EvmStorage_default, FundedStorage}

InitStorage ==
    /\ memory = <<>>
    /\ stack = <<>>
    /\ pc = usize_from(0)
    /\ status = Default
    /\ panicked = FALSE
    /\ caller = "idle"
    /\ nsteps = 0
    /\ ret = <<"none">>
    /\ trace = <<>>
    /\ tx = Transaction_default
    /\ block_env = BlockEnv_default
    /\ storage \in InitStorages

\* a logged call storage.s_load(address, key); the unwrap of a None panics
SLoadCall ==
    /\ Len(trace) < MaxStorageOps /\ ~panicked
    /\ \E locator \in StorageAddresses, key \in StorageKeys :
        LET word == EvmStorage_s_load(storage, locator, key)
        IN  /\ panicked' = (word = None)
            /\ ret' = (IF word = None THEN <<"panic">> ELSE word)
            /\ trace' = Append(trace, [call |-> "s_load", address |-> locator,
                                       key |-> key, value |-> <<>>, result |-> ret',
                                       before |-> storage, after |-> storage])
    /\ UNCHANGED <<memory, stack, pc, status, caller, nsteps, tx, block_env, storage>>

\* a logged call storage.s_store(address, key, value)
SStoreCall ==
    /\ Len(trace) < MaxStorageOps /\ ~panicked
    /\ \E locator \in StorageAddresses, key \in StorageKeys, value \in StorageValues :
        /\ storage' = EvmStorage_s_store(storage, locator, key, value)
        /\ ret' = <<"unit">>
        /\ trace' = Append(trace, [call |-> "s_store", address |-> locator,
                                   key |-> key, value |-> value, result |-> ret',
                                   before |-> storage, after |-> storage'])
    /\ UNCHANGED <<memory, stack, pc, status, panicked, caller, nsteps, tx, block_env>>

NextStorage == SLoadCall \/ SStoreCall

SpecStorage == InitStorage /\ [][NextStorage]_vars

(***************************************************************************)
(* Properties.                                                             *)
(***************************************************************************)
\* the fields of Evm together with the two observations of the run
machine == <<memory, stack, pc, status, panicked, nsteps, tx, block_env, storage>>

\* this transition is a step() (called directly or by the loop of run()):
\* every other action of Next changes caller
StepTaken == caller' = caller

\* the byte fetched by a step() in the current state, when pc is inside memory
PcInMemory == usize_lt(pc, Len(memory))
Fetched == memory[usize_int(pc) + 1]

\* the top of the stack
Top == stack[Len(stack)]

\* C1: a machine starts Running with pc 0; inside run(), once status has left Running
\* no handler is invoked and nothing of the machine changes; and status, once it has
\* left Running, never changes again.
RunLifecycle ==
    /\ status = Default /\ pc = usize_from(0)
    /\ [][(caller = "run" /\ status # Default) => UNCHANGED machine]_vars
    /\ [][status # Default => status' = status]_vars

\* C1 witness: inside run(), a handler has halted the machine
RunHalted == caller = "run" /\ status = Success /\ nsteps >= 1

\* C2 as claimed: a run() of scenario A from an empty stack ends with Success and 13 on top
ScenarioAEndsWith13 ==
    (/\ caller = "run" /\ memory = Seeded(ScenarioA, MainMemorySize)
     /\ stack = <<>> /\ pc = usize_from(0) /\ status = Default /\ nsteps = 0)
        ~> (status = Success /\ Len(stack) > 0 /\ Top = U256_from(13))

\* C3 as claimed: a step() that runs ADD, SUB, MUL, DIV or MOD to completion
\* advances pc by one
PcAdvancesByOne ==
    [][(/\ StepTaken /\ PcInMemory
        /\ Fetched \in {OP_ADD, OP_SUB, OP_MUL, OP_DIV, OP_MOD}
        /\ ~panicked') => pc' = usize_from(usize_int(pc) + 1)]_vars

\* C4 as claimed: a step() on a byte that the table assigns no handler to has a
\* defined outcome, and that outcome is the status Failure
UnassignedByteTraps ==
    [][(/\ StepTaken /\ PcInMemory
        /\ build_jump_table(Fetched) = "noop")
            => (status' = Failure /\ ~panicked')]_vars

\* C5 as claimed: a step() that runs a handler popping two operands on a stack holding
\* fewer ends with the status Failure and no panic
UnderflowFails ==
    [][(/\ StepTaken /\ PcInMemory
        /\ Fetched \in {OP_ADD, OP_SUB, OP_MUL, OP_DIV, OP_MOD, OP_SDIV, OP_SMOD}
        /\ Len(stack) < 2)
            => (status' = Failure /\ ~panicked')]_vars

\* C6 as claimed: a step() with pc at or beyond the end of memory halts with Success
\* and no panic
OffTheEndHalts ==
    [][(StepTaken /\ ~PcInMemory) => (status' = Success /\ ~panicked')]_vars

\* C7: the stack never holds more than 1024 values
StackDepthBounded == Len(stack) <= StackLimit

\* C7 witness: a push has filled the stack to its capacity
StackFilled == Len(stack) = StackLimit /\ Len(ret) = 3 /\ ret[3] = Ok

\* C8: a push on fewer than 1024 values returns Ok and appends the value; a push on
\* exactly 1024 values returns StackTooDeep and leaves the stack as it was
PushRespectsCapacity ==
    [][(Len(ret') = 3 /\ ret'[1] = "push") =>
           IF Len(stack) < StackLimit
           THEN ret'[3] = Ok /\ Len(stack') = Len(stack) + 1 /\ stack' = Append(stack, ret'[2])
           ELSE ret'[3] = Err_StackTooDeep /\ Len(stack') = StackLimit /\ stack' = stack]_vars

\* C8 witness: a push on a full stack has been refused
PushRefused == Len(stack) = StackLimit /\ Len(ret) = 3 /\ ret[3] = Err_StackTooDeep

\* C9: every pop called on an empty stack returns None and leaves the stack empty
PopOnEmptyIsNone ==
    [][(/\ trace' # trace
        /\ trace'[Len(trace')][1] = "pop"
        /\ Len(stack) = 0)
            => (trace'[Len(trace')][2] = None /\ Len(stack') = 0)]_vars

\* C9 witness: pop on the fresh stack, then push, pop, and two more pops on the
\* emptied stack, all of the pops on empty returning None
PoppedEmptyRepeatedly ==
    /\ Len(trace) >= 5
    /\ trace[1] = <<"pop", None>>
    /\ trace[2][1] = "push"
    /\ trace[3] = <<"pop", Some(trace[2][2])>>
    /\ trace[4] = <<"pop", None>>
    /\ trace[5] = <<"pop", None>>
    /\ Len(stack) = 0

\* calls i+1 .. j-1 of the log hold as many successful pushes as successful pops
PushesIn(t, i, j) == Cardinality({k \in i + 1..j - 1 : t[k][1] = "push" /\ t[k][3] = Ok})
PopsIn(t, i, j) == Cardinality({k \in i + 1..j - 1 : t[k][1] = "pop" /\ t[k][2] # None})

\* the pushes that the pop at position j of the log may answer: the successful
\* pushes before it with every later push already popped again before j
Unpopped(t, j) ==
    {i \in 1..j - 1 :
        /\ t[i][1] = "push" /\ t[i][3] = Ok
        /\ PushesIn(t, i, j) = PopsIn(t, i, j)
        /\ \A m \in i + 1..j - 1 : PushesIn(t, i, m + 1) >= PopsIn(t, i, m + 1)}

\* C10: every pop returns the most recently pushed value not yet popped (None when
\* there is none), and the length is the number of pushes minus the number of pops
LifoOrder ==
    /\ \A j \in 1..Len(trace) :
          trace[j][1] = "pop" =>
              IF Unpopped(trace, j) = {} THEN trace[j][2] = None
              ELSE \A i \in Unpopped(trace, j) : trace[j][2] = Some(trace[i][2])
    /\ Stack_len(stack) = PushesIn(trace, 0, Len(trace) + 1) - PopsIn(trace, 0, Len(trace) + 1)
    /\ Stack_is_empty(stack) = (PushesIn(trace, 0, Len(trace) + 1) = PopsIn(trace, 0, Len(trace) + 1))

\* C10 witness: three pushes of a, b, c and three pops returning c, b, a, as in
\* tests::push_pop_lifo_behavior
PoppedInReverse ==
    /\ Len(trace) = 6
    /\ trace[1] = <<"push", make_b256(1), Ok>>
    /\ trace[2] = <<"push", make_b256(2), Ok>>
    /\ trace[3] = <<"push", make_b256(3), Ok>>
    /\ trace[4] = <<"pop", Some(make_b256(3))>>
    /\ trace[5] = <<"pop", Some(make_b256(2))>>
    /\ trace[6] = <<"pop", Some(make_b256(1))>>
    /\ Len(stack) = 0

\* the handler part of C11: a step() that runs DIV or MOD to completion on a stack whose
\* top or second value is zero leaves zero on top, without panic or failure
DivModByZeroPushesZero ==
    [][(/\ StepTaken /\ PcInMemory
        /\ Fetched \in {OP_DIV, OP_MOD}
        /\ Len(stack) >= 2
        /\ (Top = U256_ZERO \/ stack[Len(stack) - 1] = U256_ZERO))
            => (/\ ~panicked' /\ status' # Failure
                /\ Len(stack') = Len(stack) - 1
                /\ stack'[Len(stack')] = U256_ZERO)]_vars

\* C11 as claimed: DIV and MOD with a zero divisor push zero and never fault, and a
\* run() of the code PUSH1 10, PUSH1 0, DIV, STOP from an empty stack ends with zero on
\* top of the stack and no failure
DivisionByZeroYieldsZero ==
    /\ DivModByZeroPushesZero
    /\ (/\ caller = "run" /\ memory = ScenarioB
        /\ stack = <<>> /\ pc = usize_from(0) /\ status = Default /\ nsteps = 0)
           ~> (/\ caller = "ran" /\ status = Success /\ ~panicked
               /\ Len(stack) > 0 /\ Top = U256_ZERO)

\* the machine the i-th logged handler call returned
After(i) == IF i = Len(trace) THEN Cur ELSE trace[i + 1].before

\* C12: add and sub called on two values or more neither panic nor change the
\* status; and add called on a stack ending with b, x, y where x or y equals b,
\* followed by sub, leaves the other of x and y in place of the three values, whether
\* or not the sum wraps: sub(add(a, b), b) = a
AddSubRoundTrip ==
    /\ \A i \in 1..Len(trace) :
        (/\ trace[i].handler \in {"add", "sub"}
         /\ Len(trace[i].before.stack) >= 2)
            => (/\ ~After(i).panicked
                /\ After(i).status = trace[i].before.status)
    /\ \A i \in 1..Len(trace) - 1 :
        LET s == trace[i].before.stack
            n == Len(s)
        IN  (/\ trace[i].handler = "add" /\ trace[i + 1].handler = "sub"
             /\ n >= 3 /\ (s[n] = s[n - 2] \/ s[n - 1] = s[n - 2]))
                => After(i + 1).stack
                       = Append(SubSeq(s, 1, n - 3),
                                IF s[n] = s[n - 2] THEN s[n - 1] ELSE s[n])

\* C12 witness: add then sub on the stack 2^256 - 1, 7, 2^256 - 1, whose sum wraps,
\* have left 7
AddSubWrapped ==
    /\ Len(trace) = 2
    /\ trace[1].handler = "add" /\ trace[2].handler = "sub"
    /\ trace[1].before.stack = <<U256_MAX, U256_from(7), U256_MAX>>
    /\ trace[2].before.stack = <<U256_MAX, U256_from(6)>>
    /\ stack = <<U256_from(7)>>
    /\ ~panicked

\* C13 as claimed: store_word(o, w) does not panic and leaves a memory of length
\* o + 32 at least, also when o + 32 exceeds the length it found; and a load_word(o)
\* called next returns w
WordRoundTripGrows ==
    /\ \A i \in 1..Len(trace) :
        trace[i].call = "store_word"
            => (/\ trace[i].result # <<"panic">>
                /\ Len(trace[i].after) >= trace[i].offset + WordBytes)
    /\ \A i \in 1..Len(trace) - 1 :
        (/\ trace[i].call = "store_word" /\ trace[i + 1].call = "load_word"
         /\ trace[i + 1].offset = trace[i].offset)
            => trace[i + 1].result = Some(trace[i].value)

\* the part of C13 inside the memory: a store_word(o, w) that finds o + 32 bytes or
\* more writes them, and a load_word(o) called next returns w
WordRoundTripInBounds ==
    /\ \A i \in 1..Len(trace) :
        (/\ trace[i].call = "store_word"
         /\ trace[i].offset + WordBytes <= Len(trace[i].before))
            => (/\ trace[i].result # <<"panic">>
                /\ Len(trace[i].after) = Len(trace[i].before))
    /\ \A i \in 1..Len(trace) - 1 :
        (/\ trace[i].call = "store_word" /\ trace[i + 1].call = "load_word"
         /\ trace[i + 1].offset = trace[i].offset)
            => trace[i + 1].result = Some(trace[i].value)

\* the width of the bytes a call touches
Width(call) == IF call \in {"store_word", "load_word"} THEN WordBytes ELSE 1

\* C14 as claimed: no call shortens the memory; a store at or beyond the length of the
\* memory does not fail, it lengthens the memory to hold the bytes stored; and the
\* bytes between the old length and the offset of the store are zero
MemoryGrowsOnDemand ==
    \A i \in 1..Len(trace) :
        /\ Len(trace[i].after) >= Len(trace[i].before)
        /\ (/\ trace[i].call \in {"store_byte", "store_word"}
            /\ trace[i].offset >= Len(trace[i].before))
               => (/\ trace[i].result # <<"panic">>
                   /\ Len(trace[i].after) >= trace[i].offset + Width(trace[i].call)
                   /\ \A j \in Len(trace[i].before) + 1..trace[i].offset :
                          trace[i].after[j] = 0)

\* the slot of the address holds no value in the storage data
Unset(data, locator, key) ==
    locator \notin DOMAIN data \/ key \notin DOMAIN data[locator].word

\* C15 as claimed: s_load never panics, and returns zero for an address that has no
\* account and for a key that was never written
LoadIsTotal ==
    \A i \in 1..Len(trace) :
        trace[i].call = "s_load"
            => (/\ trace[i].result # <<"panic">>
                /\ Unset(trace[i].before, trace[i].address, trace[i].key)
                       => trace[i].result = Some(U256_ZERO))

\* the part of C15 that the code has: s_load of a slot that was written returns the
\* value last written, without panic
LoadOfWrittenSlot ==
    \A i \in 1..Len(trace) :
        (/\ trace[i].call = "s_load"
         /\ ~Unset(trace[i].before, trace[i].address, trace[i].key))
            => trace[i].result
                   = Some(trace[i].before[trace[i].address].word[trace[i].key])

\* C16 as claimed: s_store called on a stack ending with k, v, k (key on top) writes v
\* in the slot k of the recipient tx.to and of no other account, and s_load called
\* next, on the same storage and recipient, pushes v in place of the key it pops
StoredSlotIsLoaded ==
    \A i \in 1..Len(trace) - 1 :
        LET s == trace[i].before.stack
            n == Len(s)
            to == trace[i].before.tx.to
        IN  (/\ trace[i].handler = "s_store" /\ trace[i + 1].handler = "s_load"
             /\ n >= 3 /\ s[n - 2] = s[n])
                => (/\ DOMAIN After(i).storage = DOMAIN trace[i].before.storage \cup {to}
                    /\ After(i).storage[to].word[s[n]] = s[n - 1]
                    /\ ~After(i + 1).panicked
                    /\ After(i + 1).stack = Append(SubSeq(s, 1, n - 3), s[n - 1]))

\* the number of immediate bytes that follow an opcode: n for PUSHn, none otherwise
ImmediateBytes(op) == IF op \in OP_PUSH1..OP_PUSH32 THEN op - OP_PUSH1 + 1 ELSE 0

\* the offsets, from the offset at on, where an instruction of the code starts
RECURSIVE InstructionStarts(_, _)
InstructionStarts(code, at) ==
    IF at >= Len(code) THEN {}
    ELSE {at} \cup InstructionStarts(code, at + 1 + ImmediateBytes(code[at + 1]))

\* the target is a valid jump destination of the code: a Word that is an offset of the
\* code where an instruction starts, that instruction being JUMPDEST
ValidJumpDest(code, target) ==
    /\ \A i \in 1..24 : target[i] = 0
    /\ usize_lt(as_usize(target), Len(code))
    /\ code[usize_int(as_usize(target)) + 1] = OP_JUMPDEST
    /\ usize_int(as_usize(target)) \in InstructionStarts(code, 0)

\* C17 as claimed: jump, and jumpi with a nonzero condition, never panic on a stack
\* that holds their operands; they set pc to the target popped when it is a valid jump
\* destination, and otherwise leave pc as it was and set the status Failure
JumpIsValidated ==
    \A i \in 1..Len(trace) :
        LET E == trace[i].before
            n == Len(E.stack)
        IN  (\/ trace[i].handler = "jump" /\ n >= 1
             \/ trace[i].handler = "jumpi" /\ n >= 2 /\ E.stack[n - 1] # U256_ZERO)
                => (/\ ~After(i).panicked
                    /\ IF ValidJumpDest(E.memory, E.stack[n])
                       THEN After(i).pc = as_usize(E.stack[n])
                            /\ After(i).status = E.status
                       ELSE After(i).pc = E.pc /\ After(i).status = Failure)

\* the part of C17 that the code has: a jump to a valid destination sets pc to it
ValidJumpIsTaken ==
    \A i \in 1..Len(trace) :
        LET E == trace[i].before
            n == Len(E.stack)
        IN  (/\ \/ trace[i].handler = "jump" /\ n >= 1
                \/ trace[i].handler = "jumpi" /\ n >= 2 /\ E.stack[n - 1] # U256_ZERO
             /\ ValidJumpDest(E.memory, E.stack[n]))
                => (/\ ~After(i).panicked
                    /\ After(i).pc = as_usize(E.stack[n])
                    /\ After(i).status = E.status)

\* C18: no call of execute(), step() or run() changes the transaction or the block
\* environment: they stay the values given to Evm::new
ContextIsReadOnly == [][tx' = tx /\ block_env' = block_env]_vars

\* C18 witness: a machine constructed with a call transaction and the environment of a
\* later block has been seeded by execute() and run to its halt
ContextSurvivedRun ==
    /\ trace = <<"execute">> /\ caller = "ran" /\ nsteps >= 1 /\ status = Success
    /\ tx.to = Address_of(1) /\ tx.from = Address_of(2)
    /\ block_env.number = U256_from(123)
    /\ memory = <<OP_STOP, OP_ADD, 0, 0>>

\* C19 as claimed: execute() on a machine whose tx.to is the zero address and whose
\* memory is as long as tx.data at least does not panic and leaves tx.data at the
\* start of the memory, whatever the stack
CreationSeedsMemory ==
    [][(/\ trace' # trace
        /\ tx.to = Address_ZERO
        /\ Len(memory) >= Len(tx.data))
            => (/\ ~panicked'
                /\ \A i \in 1..Len(tx.data) : memory'[i] = tx.data[i])]_vars

\* the part of C19 that the code has: the same with a stack that is not empty
CreationSeedsMemoryGivenStack ==
    [][(/\ trace' # trace
        /\ tx.to = Address_ZERO
        /\ Len(memory) >= Len(tx.data)
        /\ Len(stack) > 0)
            => (/\ ~panicked'
                /\ \A i \in 1..Len(tx.data) : memory'[i] = tx.data[i])]_vars

\* C20 as claimed: a step() on the opcode of a handler calls that handler: it leaves
\* the machine as a call of the handler leaves it
DispatchesOwnHandler ==
    [][(StepTaken /\ PcInMemory /\ Fetched \in HandledOpcodes)
           => Cur' \in Call(HandlerOf(Fetched), [Cur EXCEPT !.nsteps = Bump(nsteps)])]_vars

\* the part of C20 that the code has: the same for the eight opcodes that
\* build_jump_table assigns
DispatchesAssignedHandler ==
    [][(/\ StepTaken /\ PcInMemory
        /\ Fetched \in {OP_STOP, OP_ADD, OP_MUL, OP_SUB, OP_DIV, OP_SDIV, OP_MOD, OP_SMOD})
           => Cur' \in Call(HandlerOf(Fetched), [Cur EXCEPT !.nsteps = Bump(nsteps)])]_vars

\* the value of the binary operator of a handler on a left and a right operand
BinaryValue(handler, left, right) ==
    CASE handler = "sub"    -> wrapping_sub(left, right)
      [] handler = "div"    -> IF right = U256_ZERO THEN U256_ZERO
                               ELSE U256_div(left, right)
      [] handler = "modulo" -> IF right = U256_ZERO THEN U256_ZERO
                               ELSE U256_rem(left, right)
      [] handler = "lt"     -> U256_from_bool(~GeqN(left, right))
      [] handler = "gt"     -> U256_from_bool(~GeqN(right, left))

\* C21 as claimed: sub, div, modulo, lt and gt called on a stack ending with x, y (y
\* pushed last) replace the two by x op y: the first value popped is the right operand
SecondPushedIsRight ==
    \A i \in 1..Len(trace) :
        LET s == trace[i].before.stack
            n == Len(s)
        IN  (trace[i].handler \in {"sub", "div", "modulo", "lt", "gt"} /\ n >= 2)
                => (/\ ~After(i).panicked
                    /\ After(i).stack
                           = Append(SubSeq(s, 1, n - 2),
                                    BinaryValue(trace[i].handler, s[n - 1], s[n])))

\* the order that the code has in all five handlers: the first value popped is the
\* left operand, the two are replaced by y op x
FirstPoppedIsLeft ==
    \A i \in 1..Len(trace) :
        LET s == trace[i].before.stack
            n == Len(s)
        IN  (trace[i].handler \in {"sub", "div", "modulo", "lt", "gt"} /\ n >= 2)
                => (/\ ~After(i).panicked
                    /\ After(i).stack
                           = Append(SubSeq(s, 1, n - 2),
                                    BinaryValue(trace[i].handler, s[n], s[n - 1])))

\* the exact sum of two words, 33 bytes
SumWide(a, b) == AddN(<<0>> \o a, <<0>> \o b, 0)

\* the exact product of two words, 64 bytes: schoolbook columns, least significant
\* first, column k summing the byte products a_i * b_j with i + j = k
ProductWide(a, b) ==
    LET n == WordBytes
        digit(x, i) == IF i < n THEN x[n - i] ELSE 0
        col(k) == LET P[i \in 0..k + 1] ==
                          IF i > k THEN 0 ELSE digit(a, i) * digit(b, k - i) + P[i + 1]
                  IN  P[0]
        carry[k \in 0..2 * n] == IF k = 0 THEN 0 ELSE (col(k - 1) + carry[k - 1]) \div 256
    IN  ByteString([i \in 1..2 * n |-> (col(2 * n - i) + carry[2 * n - i]) % 256])

\* the remainder of a byte string x of any length by a nonzero word b: long division,
\* one bit of x at a time (double the remainder, bring the bit down, subtract b when
\* it fits)
RemWide(x, b) ==
    LET bw == <<0>> \o b
        BitStep(r, bit) ==
            LET r2 == AddN(r, r, bit)
            IN  IF GeqN(r2, bw) THEN SubN(r2, bw) ELSE r2
        Bits[k \in 0..8, r \in WideWord, octet \in Byte] ==
            IF k = 8 THEN r ELSE Bits[k + 1, BitStep(r, BitOf(octet, k + 1)), octet]
        Bytes[j \in 1..Len(x) + 1, r \in WideWord] ==
            IF j > Len(x) THEN r ELSE Bytes[j + 1, Bits[0, r, x[j]]]
    IN  Tail(Bytes[1, [i \in 1..WordBytes + 1 |-> 0]])

\* (a + b) mod c and (a * b) mod c of the exact sum and product, zero for a zero c
ExactAddMod(a, b, c) == IF c = U256_ZERO THEN U256_ZERO ELSE RemWide(SumWide(a, b), c)
ExactMulMod(a, b, c) == IF c = U256_ZERO THEN U256_ZERO ELSE RemWide(ProductWide(a, b), c)

\* C22 as claimed: addmod and mulmod called on a stack ending with c, b, a (a on top)
\* never panic and replace the three by (a + b) mod c, respectively (a * b) mod c, of
\* the exact sum or product, which is zero when c is zero
ModularOpsAreExact ==
    \A i \in 1..Len(trace) :
        LET s == trace[i].before.stack
            n == Len(s)
        IN  (trace[i].handler \in {"addmod", "mulmod"} /\ n >= 3)
                => (/\ ~After(i).panicked
                    /\ After(i).stack
                           = Append(SubSeq(s, 1, n - 3),
                                    IF trace[i].handler = "addmod"
                                    THEN ExactAddMod(s[n], s[n - 1], s[n - 2])
                                    ELSE ExactMulMod(s[n], s[n - 1], s[n - 2])))

\* the remainder of the two's-complement readings, its sign following the dividend
I256_rem(a, b) ==
    LET r == U256_rem(AbsW(a), AbsW(b))
    IN  IF IsNegative(a) THEN NegW(r) ELSE r

\* the stack left by a binary handler that pushes value: the two operands replaced
Replaced(s, value) == Append(SubSeq(s, 1, Len(s) - 2), value)

\* C23 as claimed: smod called on a stack ending with b, a (a on top) pushes zero
\* when b is zero and otherwise the remainder of the signed readings of a and b,
\* so that -7 smod 2 is -1
SmodIsSigned ==
    \A i \in 1..Len(trace) :
        LET s == trace[i].before.stack
            n == Len(s)
        IN  (trace[i].handler = "smod" /\ n >= 2)
                => (/\ ~After(i).panicked
                    /\ After(i).stack
                           = Replaced(s, IF s[n - 1] = U256_ZERO THEN U256_ZERO
                                         ELSE I256_rem(s[n], s[n - 1])))

\* C24 as claimed: sdiv called on a stack ending with b, a (a on top) never panics
\* and pushes zero when b is zero, otherwise the truncated signed quotient, which
\* for -2^255 / -1 wraps to -2^255
SdivIsTotal ==
    \A i \in 1..Len(trace) :
        LET s == trace[i].before.stack
            n == Len(s)
        IN  (trace[i].handler = "sdiv" /\ n >= 2)
                => (/\ ~After(i).panicked
                    /\ After(i).stack
                           = Replaced(s, IF s[n - 1] = U256_ZERO THEN U256_ZERO
                                         ELSE I256_div(s[n], s[n - 1])))

\* the part of C24 that the code keeps: away from -2^255 / -1, sdiv does not panic
\* and pushes zero for a zero b and the truncated signed quotient otherwise
SdivAwayFromOverflow ==
    \A i \in 1..Len(trace) :
        LET s == trace[i].before.stack
            n == Len(s)
        IN  (/\ trace[i].handler = "sdiv" /\ n >= 2
             /\ ~I256_div_overflows(s[n], s[n - 1]))
                => (/\ ~After(i).panicked
                    /\ After(i).stack
                           = Replaced(s, IF s[n - 1] = U256_ZERO THEN U256_ZERO
                                         ELSE I256_div(s[n], s[n - 1])))

\* C25 as claimed: jumpi called on a stack ending with condition, target (target on
\* top) pops both and sets pc to the target exactly when the condition word is
\* nonzero, whichever of its 256 bits are set; otherwise pc stays
JumpiTestsWholeWord ==
    \A i \in 1..Len(trace) :
        LET s == trace[i].before.stack
            n == Len(s)
        IN  (trace[i].handler = "jumpi" /\ n >= 2)
                => (/\ ~After(i).panicked
                    /\ After(i).stack = SubSeq(s, 1, n - 2)
                    /\ After(i).pc = IF s[n - 1] # U256_ZERO THEN as_usize(s[n])
                                     ELSE trace[i].before.pc)

\* a word that is a single byte, one of the bytes of value
ByteOf(word, value) ==
    /\ \A j \in 1..WordBytes - 1 : word[j] = 0
    /\ \E j \in 1..WordBytes : word[WordBytes] = value[j]

\* C26 as claimed: byte called on a stack ending with value, index (index on top)
\* never panics; it pushes zero for every index above 31 and a single byte of value
\* for an index in 0..31
ByteIsBounded ==
    \A i \in 1..Len(trace) :
        LET s == trace[i].before.stack
            n == Len(s)
        IN  (trace[i].handler = "byte" /\ n >= 2)
                => (/\ ~After(i).panicked
                    /\ Len(After(i).stack) = n - 1
                    /\ SubSeq(After(i).stack, 1, n - 2) = SubSeq(s, 1, n - 2)
                    /\ IF GeqN(s[n], U256_from(WordBytes))
                       THEN After(i).stack[n - 1] = U256_ZERO
                       ELSE ByteOf(After(i).stack[n - 1], s[n - 1]))

\* C27: every s_store(address, key, value) leaves exactly the accounts it found plus
\* the one of address; an account it creates has no code, a zero balance and the one
\* slot key -> value; in an account it finds, the slot key becomes value, and the
\* code, the balance and every other slot stay; every other account stays
StoreFrame ==
    \A i \in 1..Len(trace) :
        LET e == trace[i]
        IN  e.call = "s_store"
                => (/\ DOMAIN e.after = DOMAIN e.before \cup {e.address}
                    /\ \A other \in DOMAIN e.before \ {e.address} :
                           e.after[other] = e.before[other]
                    /\ DOMAIN e.after[e.address] = {"code", "balance", "word"}
                    /\ e.after[e.address].word[e.key] = e.value
                    /\ IF e.address \in DOMAIN e.before
                       THEN LET old == e.before[e.address]
                                new == e.after[e.address]
                            IN  /\ new.code = old.code
                                /\ new.balance = old.balance
                                /\ DOMAIN new.word = DOMAIN old.word \cup {e.key}
                                /\ \A k \in DOMAIN old.word \ {e.key} :
                                       new.word[k] = old.word[k]
                       ELSE /\ e.after[e.address].code = <<>>
                            /\ e.after[e.address].balance = U256_ZERO
                            /\ DOMAIN e.after[e.address].word = {e.key})

\* an account was created beside another one, and a slot of a funded account that
\* holds a second slot was overwritten with a different value
StoredBothWays ==
    /\ \E i \in 1..Len(trace) :
           /\ trace[i].call = "s_store"
           /\ trace[i].address \notin DOMAIN trace[i].before
           /\ DOMAIN trace[i].before # {}
    /\ \E i \in 1..Len(trace) :
           LET e == trace[i]
           IN  /\ e.call = "s_store"
               /\ e.address \in DOMAIN e.before
               /\ e.before[e.address].balance # U256_ZERO
               /\ e.before[e.address].code # <<>>
               /\ e.key \in DOMAIN e.before[e.address].word
               /\ e.before[e.address].word[e.key] # e.value
               /\ DOMAIN e.before[e.address].word # {e.key}
               /\ DOMAIN e.before # {e.address}

\* C28: whatever sequence of step() and run() calls is made, status is Default or
\* Success, never Failure; and status changes only in a step() that fetches STOP,
\* which sets it to Success
FailureUnreachable ==
    /\ [](status \in {Default, Success})
    /\ [][status' # status
              => (/\ StepTaken /\ PcInMemory /\ Fetched = OP_STOP
                  /\ status' = Success)]_vars

\* step() was called directly, past a STOP that had halted the machine
SteppedPastStop == caller = "idle" /\ status = Success /\ nsteps >= 2

\* the handlers of the binary arithmetic opcodes ADD, SUB, MUL, DIV, MOD, SDIV, SMOD
BinaryArithmetic == {"add", "sub", "mul", "div", "modulo", "sdiv", "smod"}

\* the call trace[i] of a handler took a stack of depth n to one of depth n - 1 with
\* the lowest n - 2 entries kept, without panic, and changed nothing else
KeptFrame(i) ==
    LET before == trace[i].before
        after == After(i)
        n == Len(before.stack)
    IN  /\ ~after.panicked
        /\ Len(after.stack) = n - 1
        /\ SubSeq(after.stack, 1, n - 2) = SubSeq(before.stack, 1, n - 2)
        /\ after.memory = before.memory
        /\ after.storage = before.storage
        /\ after.pc = before.pc
        /\ after.status = before.status
        /\ after.tx = before.tx
        /\ after.block_env = before.block_env

\* C29 as claimed: a binary arithmetic handler called on a stack of depth n >= 2,
\* the full stack of 1024 included, leaves depth n - 1 with the lowest n - 2 entries
\* unchanged, its push never refused, and memory, storage, pc, status and context
\* unchanged
BinaryFrame ==
    \A i \in 1..Len(trace) :
        (trace[i].handler \in BinaryArithmetic /\ Len(trace[i].before.stack) >= 2)
            => KeptFrame(i)

\* the part of C29 that the code keeps: the same frame for every call except the
\* sdiv of -2^255 by -1
BinaryFrameAwayFromOverflow ==
    \A i \in 1..Len(trace) :
        LET s == trace[i].before.stack
        IN  (/\ trace[i].handler \in BinaryArithmetic /\ Len(s) >= 2
             /\ ~(trace[i].handler = "sdiv" /\ I256_div_overflows(s[Len(s)], s[Len(s) - 1])))
                => KeptFrame(i)

\* C30: a store_word(o, w) that returns leaves the length of the memory, writes the
\* bytes of w at o .. o + 31, most significant first, and keeps every byte below o
\* and from o + 32 on; a store_byte(o, b) that returns writes b at o and keeps every
\* other byte; load_byte and load_word keep the whole memory
MemoryStoreFrame ==
    \A i \in 1..Len(trace) :
        LET e == trace[i]
            o == e.offset
            n == Len(e.before)
        IN  e.result # <<"panic">>
                => (/\ Len(e.after) = n
                    /\ e.call = "store_word"
                           => (/\ SubSeq(e.after, o + 1, o + WordBytes) = e.value
                               /\ SubSeq(e.after, 1, o) = SubSeq(e.before, 1, o)
                               /\ SubSeq(e.after, o + WordBytes + 1, n)
                                      = SubSeq(e.before, o + WordBytes + 1, n))
                    /\ e.call = "store_byte"
                           => (/\ e.after[o + 1] = e.value
                               /\ \A j \in (1..n) \ {o + 1} : e.after[j] = e.before[j])
                    /\ e.call \in {"load_word", "load_byte"} => e.after = e.before)

\* a word was stored above a byte that held a value, and a byte was stored into a
\* memory that held other values; and a load followed a store
StoredBesideData ==
    /\ \E i \in 1..Len(trace) :
           LET e == trace[i]
           IN  /\ e.call = "store_word" /\ e.result # <<"panic">>
               /\ e.offset > 0 /\ e.before[e.offset] # 0
               /\ e.value # SubSeq(e.before, e.offset + 1, e.offset + WordBytes)
               /\ e.value[1] # e.value[WordBytes]
    /\ \E i \in 1..Len(trace) :
           LET e == trace[i]
           IN  /\ e.call = "store_byte" /\ e.result # <<"panic">>
               /\ e.before[e.offset + 1] # e.value
               /\ \E j \in (1..Len(e.before)) \ {e.offset + 1} : e.before[j] # 0

\* a word and a byte were loaded from a memory that held a stored value
LoadedStoredData ==
    /\ \E i \in 1..Len(trace) :
           /\ trace[i].call = "load_word" /\ trace[i].result # <<"panic">>
           /\ \E j \in 1..Len(trace[i].before) : trace[i].before[j] # 0
    /\ \E i \in 1..Len(trace) :
           /\ trace[i].call = "load_byte" /\ trace[i].result # <<"panic">>
           /\ \E j \in 1..Len(trace[i].before) : trace[i].before[j] # 0

====
